---- MODULE Spec2Model ----
(***************************************************************************)
(* Control flow of docs/source/tutorials/quantization_bert_glue.ipynb:     *)
(* the hyper-parameter cell, build_model, prepare_traced_trainer,          *)
(* build_finetuning_model, fake_quantize and evaluate, executed as the     *)
(* top-level script `fake_quantize(); evaluate()`, run after run, over a   *)
(* file system that persists between runs.                                 *)
(*                                                                         *)
(* External libraries (transformers, torch, nni) are modelled by what the  *)
(* script observes of them: a model object carries a weights descriptor,   *)
(* Trainer.train and quantizer.compress replace it, torch.save/torch.load  *)
(* copy it to and from a path.  Learning rates are in units of 1e-6.       *)
(***************************************************************************)
EXTENDS Integers, Sequences, FiniteSets, TLC

(* bound on the number of executions of the script *)
MaxRuns == 2

(* ---- the hyper-parameter cell -------------------------------------- *)
FinetuneLrDefault == 40
quant_lr == 10
DevEpochs == 1
FullEpochs == 10

(* Python's None for an integer argument *)
None == 0 - 1

Tasks == {"cola", "mnli", "mrpc", "qnli", "qqp", "rte", "sst2", "stsb", "wnli"}

(* the selector values tried: the three supported ones and one that is not *)
QuantMethods == {"lsq", "qat", "ptq", "awq"}

(* the learning rates the user may put in the hyper-parameter cell *)
FinetuneLrs == {FinetuneLrDefault, 20}

(* the tasks of the runs in which the learning rate is edited as well *)
ReuseTasks == {"qnli", "mnli", "stsb"}

VARIABLES
    runs,                 \* executions of the script started so far
    pc,                   \* position in the script
    task_name, finetune_lr, quant_method, dev_mode,
    quant_max_epochs, finetune_max_epochs,
    dirs,                 \* directories that exist
    fs,                   \* files that exist: path -> stored weights
    heap,                 \* model objects of this run, by identity
    bfm_path, bfm_is_quant, bfm_caller, bfm_model, bfm_trainer,
    bfm_existed,          \* did the file exist when the call was made
    fq_model, traced_trainer, evaluator, quantizer, calibration_config,
    ev_model, ev_trainer, ev_metrics,
    compress_calls,       \* arguments of every compress call of this run
    stdout,               \* what this run printed
    trace,                \* statements executed in this run, in order
    accessed,             \* paths this run tested, read or wrote
    trainCount,           \* task -> fine-tuning trainings completed, ever
    saveCount             \* task -> checkpoint writes, ever

config == <<task_name, finetune_lr, quant_method, dev_mode, quant_max_epochs,
           finetune_max_epochs>>
bfm == <<bfm_path, bfm_is_quant, bfm_caller, bfm_model, bfm_trainer, bfm_existed>>
fqv == <<fq_model, traced_trainer, evaluator, quantizer, calibration_config>>
evv == <<ev_model, ev_trainer, ev_metrics>>
hist == <<trainCount, saveCount>>
vars == <<runs, pc, config, dirs, fs, heap, bfm, fqv, evv, compress_calls,
          stdout, trace, accessed, hist>>

MaxEpochs(dm) == IF dm THEN DevEpochs ELSE FullEpochs

(* ---- build_model ---------------------------------------------------- *)
NumLabelsBinary(t) == 2

NumLabels(t) ==
    LET is_regression == t = "stsb"
    IN  IF is_regression THEN 1 ELSE (IF t = "mnli" THEN 3 ELSE 2)

Pretrained == [kind |-> "pretrained", task |-> "", lr |-> 0, epochs |-> 0]

build_model(pretrained_model_name_or_path, t) ==
    [name |-> pretrained_model_name_or_path,
     num_labels |-> NumLabels(t),
     weights |-> Pretrained]

(* ---- paths ---------------------------------------------------------- *)
OutputDir == "./output/bert_finetuned/"

StateDictPathShared(t) == OutputDir \o "model" \o ".bin"

StateDictPath(t) == OutputDir \o t \o ".bin"

(* ---- prepare_traced_trainer ---------------------------------------- *)
NoTrainer ==
    [model |-> 0, learning_rate |-> 0, num_train_epochs |-> 0,
     load_best_model_at_end |-> FALSE]

LearningRate(is_quant) == IF is_quant THEN quant_lr ELSE finetune_lr

prepare_traced_trainer(model, load_best_model_at_end, is_quant, epochs) ==
    [model |-> model,
     learning_rate |-> LearningRate(is_quant),
     num_train_epochs |-> epochs,
     load_best_model_at_end |-> load_best_model_at_end]

(* Trainer.train(): the model of the trainer is fine-tuned in place *)
Trained(t, trainer) ==
    [kind |-> "finetuned", task |-> t, lr |-> trainer.learning_rate,
     epochs |-> trainer.num_train_epochs]

(* Trainer.evaluate() / evaluator.evaluate(): metrics of given weights *)
Metrics(what, w) == [what |-> what, of |-> w]

(* ---- fake_quantize: the if/elif/else over quant_method -------------- *)
SupportedAny(qm) == TRUE

Supported(qm) == qm = "lsq" \/ qm = "qat" \/ qm = "ptq"

QuantizerClassLsq(qm) == "LsqQuantizer"

QuantizerClass(qm) ==
    IF qm = "lsq" THEN "LsqQuantizer"
    ELSE IF qm = "qat" THEN "QATQuantizer"
    ELSE "PtqQuantizer"

CompressArgsNone(qm, qme) == [max_steps |-> None, max_epochs |-> None]

CompressArgs(qm, qme) ==
    IF qm = "lsq" THEN [max_steps |-> None, max_epochs |-> qme]
    ELSE IF qm = "qat" THEN [max_steps |-> None, max_epochs |-> qme]
    ELSE [max_steps |-> 1, max_epochs |-> None]

NoQuantizer == [cls |-> "", model |-> 0]
NoEvaluator == [trainer |-> NoTrainer, bound |-> 0]
NoConfig == [method |-> "", max_steps |-> None, max_epochs |-> None]

(* quantizer.compress(): simulated quantization of the wrapped model *)
Quantized(qm, t, trainer, args) ==
    [kind |-> "quantized-" \o qm, task |-> t, lr |-> trainer.learning_rate,
     epochs |-> args.max_epochs]

NoMetrics == Metrics("", Pretrained)

Event(fn, ev) == [fn |-> fn, ev |-> ev]

Init ==
    /\ runs = 0
    /\ pc = "idle"
    /\ task_name = "qnli"
    /\ finetune_lr = FinetuneLrDefault
    /\ quant_method = "lsq"
    /\ dev_mode = TRUE
    /\ quant_max_epochs = MaxEpochs(TRUE)
    /\ finetune_max_epochs = MaxEpochs(TRUE)
    /\ dirs = {}
    /\ fs = <<>>
    /\ heap = <<>>
    /\ bfm_path = ""
    /\ bfm_is_quant = FALSE
    /\ bfm_caller = ""
    /\ bfm_model = 0
    /\ bfm_trainer = NoTrainer
    /\ bfm_existed = FALSE
    /\ fq_model = 0
    /\ traced_trainer = NoTrainer
    /\ evaluator = NoEvaluator
    /\ quantizer = NoQuantizer
    /\ calibration_config = NoConfig
    /\ ev_model = 0
    /\ ev_trainer = NoTrainer
    /\ ev_metrics = NoMetrics
    /\ compress_calls = <<>>
    /\ stdout = <<>>
    /\ trace = <<>>
    /\ accessed = {}
    /\ trainCount = [t \in Tasks |-> 0]
    /\ saveCount = [t \in Tasks |-> 0]

(* A new execution of the notebook: the hyper-parameter cell is run with   *)
(* the values the user has put there; nothing but the file system is kept. *)
StartRun(t, flr, qm, dm) ==
    /\ pc \in {"idle", "done", "error"}
    /\ runs < MaxRuns
    /\ runs' = runs + 1
    /\ task_name' = t
    /\ finetune_lr' = flr
    /\ quant_method' = qm
    /\ dev_mode' = dm
    /\ quant_max_epochs' = MaxEpochs(dm)
    /\ finetune_max_epochs' = MaxEpochs(dm)
    /\ heap' = <<>>
    /\ bfm_path' = ""
    /\ bfm_is_quant' = FALSE
    /\ bfm_caller' = ""
    /\ bfm_model' = 0
    /\ bfm_trainer' = NoTrainer
    /\ bfm_existed' = FALSE
    /\ fq_model' = 0
    /\ traced_trainer' = NoTrainer
    /\ evaluator' = NoEvaluator
    /\ quantizer' = NoQuantizer
    /\ calibration_config' = NoConfig
    /\ ev_model' = 0
    /\ ev_trainer' = NoTrainer
    /\ ev_metrics' = NoMetrics
    /\ compress_calls' = <<>>
    /\ stdout' = <<>>
    /\ trace' = <<>>
    /\ accessed' = {}
    /\ pc' = "fq_mkdir"
    /\ UNCHANGED <<dirs, fs, hist>>

Log(fn, ev) == trace' = Append(trace, Event(fn, ev))

(* ---- build_finetuning_model(state_dict_path, is_quant) -------------- *)
PathExistsNever(path) == FALSE

PathExistsStale(path) ==
    path \in DOMAIN fs /\ fs[path].epochs = finetune_max_epochs

PathExists(path) == path \in DOMAIN fs

(* the call: bind the parameters *)
CallBuild(caller, state_dict_path, is_quant) ==
    /\ bfm_path' = state_dict_path
    /\ bfm_is_quant' = is_quant
    /\ bfm_caller' = caller
    /\ bfm_existed' = (state_dict_path \in DOMAIN fs)
    /\ bfm_model' = 0
    /\ bfm_trainer' = NoTrainer
    /\ pc' = "bfm_build_model"
    /\ UNCHANGED <<runs, config, dirs, fs, heap, fqv, evv, compress_calls,
                   stdout, trace, accessed, hist>>

BFM_BuildModelCached ==
    /\ pc = "bfm_build_model"
    /\ IF fq_model # 0
          THEN heap' = heap /\ bfm_model' = fq_model
          ELSE /\ heap' = Append(heap, build_model("bert-base-uncased", task_name))
               /\ bfm_model' = Len(heap) + 1
    /\ Log("build_finetuning_model", "build_model")
    /\ pc' = "bfm_exists"
    /\ UNCHANGED <<runs, config, dirs, fs, bfm_path, bfm_is_quant, bfm_caller,
                   bfm_trainer, bfm_existed, fqv, evv, compress_calls, stdout,
                   accessed, hist>>

(* model = build_model('bert-base-uncased', task_name) *)
BFM_BuildModel ==
    /\ pc = "bfm_build_model"
    /\ heap' = Append(heap, build_model("bert-base-uncased", task_name))
    /\ bfm_model' = Len(heap) + 1
    /\ Log("build_finetuning_model", "build_model")
    /\ pc' = "bfm_exists"
    /\ UNCHANGED <<runs, config, dirs, fs, bfm_path, bfm_is_quant, bfm_caller,
                   bfm_trainer, bfm_existed, fqv, evv, compress_calls, stdout,
                   accessed, hist>>

(* if Path(state_dict_path).exists(): *)
BFM_Exists ==
    /\ pc = "bfm_exists"
    /\ accessed' = accessed \cup {bfm_path}
    /\ pc' = IF PathExists(bfm_path) THEN "bfm_load" ELSE "bfm_trainer"
    /\ UNCHANGED <<runs, config, dirs, fs, heap, bfm, fqv, evv,
                   compress_calls, stdout, trace, hist>>

(* model.load_state_dict(torch.load(state_dict_path)) *)
BFM_Load ==
    /\ pc = "bfm_load"
    /\ bfm_path \in DOMAIN fs
    /\ heap' = [heap EXCEPT ![bfm_model].weights = fs[bfm_path]]
    /\ accessed' = accessed \cup {bfm_path}
    /\ Log("build_finetuning_model", "load_state_dict")
    /\ pc' = "bfm_return"
    /\ UNCHANGED <<runs, config, dirs, fs, bfm, fqv, evv, compress_calls,
                   stdout, hist>>

(* trainer = prepare_traced_trainer(model, True, is_quant) *)
BFM_PrepareTrainer ==
    /\ pc = "bfm_trainer"
    /\ bfm_trainer' = prepare_traced_trainer(bfm_model, TRUE, bfm_is_quant,
                                             finetune_max_epochs)
    /\ Log("build_finetuning_model", "prepare_traced_trainer")
    /\ pc' = "bfm_train"
    /\ UNCHANGED <<runs, config, dirs, fs, heap, bfm_path, bfm_is_quant,
                   bfm_caller, bfm_model, bfm_existed, fqv, evv,
                   compress_calls, stdout, accessed, hist>>

(* trainer.train() *)
BFM_Train ==
    /\ pc = "bfm_train"
    /\ heap' = [heap EXCEPT ![bfm_trainer.model].weights =
                                Trained(task_name, bfm_trainer)]
    /\ trainCount' = [trainCount EXCEPT ![task_name] = @ + 1]
    /\ Log("build_finetuning_model", "trainer.train")
    /\ pc' = "bfm_save"
    /\ UNCHANGED <<runs, config, dirs, fs, bfm, fqv, evv, compress_calls,
                   stdout, accessed, saveCount>>

(* torch.save(model.state_dict(), state_dict_path) *)
BFM_Save ==
    /\ pc = "bfm_save"
    /\ OutputDir \in dirs
    /\ fs' = (bfm_path :> heap[bfm_model].weights) @@ fs
    /\ accessed' = accessed \cup {bfm_path}
    /\ saveCount' = [saveCount EXCEPT ![task_name] = @ + 1]
    /\ Log("build_finetuning_model", "torch.save")
    /\ pc' = "bfm_return"
    /\ UNCHANGED <<runs, config, dirs, heap, bfm, fqv, evv, compress_calls,
                   stdout, trainCount>>

(* return model, to  model = build_finetuning_model(...)  in fake_quantize *)
BFM_ReturnFQ ==
    /\ pc = "bfm_return"
    /\ bfm_caller = "fq"
    /\ fq_model' = bfm_model
    /\ Log("fake_quantize", "build_finetuning_model")
    /\ pc' = "fq_trainer"
    /\ UNCHANGED <<runs, config, dirs, fs, heap, bfm, traced_trainer,
                   evaluator, quantizer, calibration_config, evv,
                   compress_calls, stdout, accessed, hist>>

(* return model, to  model = build_finetuning_model(...)  in evaluate *)
BFM_ReturnEV ==
    /\ pc = "bfm_return"
    /\ bfm_caller = "ev"
    /\ ev_model' = bfm_model
    /\ Log("evaluate", "build_finetuning_model")
    /\ pc' = "ev_trainer"
    /\ UNCHANGED <<runs, config, dirs, fs, heap, bfm, fqv, ev_trainer,
                   ev_metrics, compress_calls, stdout, accessed, hist>>

(* ---- fake_quantize() ------------------------------------------------ *)
(* Path('./output/bert_finetuned/').mkdir(parents=True, exist_ok=True) *)
FQ_Mkdir ==
    /\ pc = "fq_mkdir"
    /\ dirs' = dirs \cup {OutputDir}
    /\ Log("fake_quantize", "mkdir")
    /\ pc' = "fq_call_bfm"
    /\ UNCHANGED <<runs, config, fs, heap, bfm, fqv, evv, compress_calls,
                   stdout, accessed, hist>>

FQ_CallBuild ==
    /\ pc = "fq_call_bfm"
    /\ CallBuild("fq", StateDictPath(task_name), FALSE)

(* the is_quant argument of the trainer handed to the quantizer *)
FQ_IsQuant == FALSE

(* traced_trainer = prepare_traced_trainer(model, is_quant=False) *)
FQ_PrepareTrainer ==
    /\ pc = "fq_trainer"
    /\ traced_trainer' = prepare_traced_trainer(fq_model, FALSE, FQ_IsQuant,
                                                finetune_max_epochs)
    /\ Log("fake_quantize", "prepare_traced_trainer")
    /\ pc' = "fq_evaluator"
    /\ UNCHANGED <<runs, config, dirs, fs, heap, bfm, fq_model, evaluator,
                   quantizer, calibration_config, evv, compress_calls, stdout,
                   accessed, hist>>

(* evaluator = TransformersEvaluator(traced_trainer) *)
FQ_Evaluator ==
    /\ pc = "fq_evaluator"
    /\ evaluator' = [trainer |-> traced_trainer, bound |-> traced_trainer.model]
    /\ Log("fake_quantize", "TransformersEvaluator")
    /\ pc' = "fq_branch"
    /\ UNCHANGED <<runs, config, dirs, fs, heap, bfm, fq_model, traced_trainer,
                   quantizer, calibration_config, evv, compress_calls, stdout,
                   accessed, hist>>

(* quantizer = LsqQuantizer(...) | QATQuantizer(...) | PtqQuantizer(...) *)
FQ_Quantizer ==
    /\ pc = "fq_branch"
    /\ Supported(quant_method)
    /\ quantizer' = [cls |-> QuantizerClass(quant_method), model |-> fq_model]
    /\ Log("fake_quantize", QuantizerClass(quant_method))
    /\ pc' = "fq_compress"
    /\ UNCHANGED <<runs, config, dirs, fs, heap, bfm, fq_model, traced_trainer,
                   evaluator, calibration_config, evv, compress_calls, stdout,
                   accessed, hist>>

(* else: raise ValueError(...): the script stops *)
FQ_Raise ==
    /\ pc = "fq_branch"
    /\ ~Supported(quant_method)
    /\ Log("fake_quantize", "raise ValueError")
    /\ pc' = "error"
    /\ UNCHANGED <<runs, config, dirs, fs, heap, bfm, fqv, evv,
                   compress_calls, stdout, accessed, hist>>

(* model, calibration_config = quantizer.compress(max_steps, max_epochs) *)
FQ_Compress ==
    /\ pc = "fq_compress"
    /\ LET args == CompressArgs(quant_method, quant_max_epochs)
       IN  /\ compress_calls' = Append(compress_calls, args)
           /\ heap' = [heap EXCEPT ![quantizer.model].weights =
                          Quantized(quant_method, task_name,
                                    evaluator.trainer, args)]
           /\ calibration_config' = [method |-> quant_method,
                                     max_steps |-> args.max_steps,
                                     max_epochs |-> args.max_epochs]
    /\ fq_model' = quantizer.model
    /\ Log("fake_quantize", "compress")
    /\ pc' = "fq_print_config"
    /\ UNCHANGED <<runs, config, dirs, fs, bfm, traced_trainer, evaluator,
                   quantizer, evv, stdout, accessed, hist>>

(* print(calibration_config) *)
FQ_PrintConfig ==
    /\ pc = "fq_print_config"
    /\ stdout' = Append(stdout, Metrics("calibration_config",
                                        heap[fq_model].weights))
    /\ Log("fake_quantize", "print(calibration_config)")
    /\ pc' = "fq_bind"
    /\ UNCHANGED <<runs, config, dirs, fs, heap, bfm, fqv, evv,
                   compress_calls, accessed, hist>>

(* quantizer.evaluator.bind_model(model, quantizer._get_param_names_map()) *)
FQ_BindModel ==
    /\ pc = "fq_bind"
    /\ evaluator' = [evaluator EXCEPT !.bound = fq_model]
    /\ Log("fake_quantize", "bind_model")
    /\ pc' = "fq_print_metrics"
    /\ UNCHANGED <<runs, config, dirs, fs, heap, bfm, fq_model, traced_trainer,
                   quantizer, calibration_config, evv, compress_calls, stdout,
                   accessed, hist>>

(* print(quantizer.evaluator.evaluate()); fake_quantize returns *)
FQ_PrintMetrics ==
    /\ pc = "fq_print_metrics"
    /\ stdout' = Append(stdout, Metrics("quantized metrics",
                                        heap[evaluator.bound].weights))
    /\ Log("fake_quantize", "print(evaluate)")
    /\ pc' = "ev_call_bfm"
    /\ UNCHANGED <<runs, config, dirs, fs, heap, bfm, fqv, evv,
                   compress_calls, accessed, hist>>

(* ---- evaluate() ----------------------------------------------------- *)
EV_CallBuild ==
    /\ pc = "ev_call_bfm"
    /\ CallBuild("ev", StateDictPath(task_name), FALSE)

(* trainer = prepare_traced_trainer(model, is_quant=False) *)
EV_PrepareTrainer ==
    /\ pc = "ev_trainer"
    /\ ev_trainer' = prepare_traced_trainer(ev_model, FALSE, FALSE,
                                            finetune_max_epochs)
    /\ Log("evaluate", "prepare_traced_trainer")
    /\ pc' = "ev_evaluate"
    /\ UNCHANGED <<runs, config, dirs, fs, heap, bfm, fqv, ev_model,
                   ev_metrics, compress_calls, stdout, accessed, hist>>

(* metrics = trainer.evaluate() *)
EV_Evaluate ==
    /\ pc = "ev_evaluate"
    /\ ev_metrics' = Metrics("Evaluate metrics", heap[ev_trainer.model].weights)
    /\ Log("evaluate", "trainer.evaluate")
    /\ pc' = "ev_print"
    /\ UNCHANGED <<runs, config, dirs, fs, heap, bfm, fqv, ev_model,
                   ev_trainer, compress_calls, stdout, accessed, hist>>

(* print(f"Evaluate metrics={metrics}"); the script ends *)
EV_Print ==
    /\ pc = "ev_print"
    /\ stdout' = Append(stdout, ev_metrics)
    /\ Log("evaluate", "print(Evaluate metrics)")
    /\ pc' = "done"
    /\ UNCHANGED <<runs, config, dirs, fs, heap, bfm, fqv, evv,
                   compress_calls, accessed, hist>>

(* a run of the notebook as published, for any task, method and dev_mode *)
Run ==
    \E t \in Tasks, qm \in QuantMethods, dm \in BOOLEAN :
        StartRun(t, FinetuneLrDefault, qm, dm)

(* a run after the user has also edited finetune_lr *)
RunAnyLr ==
    \E t \in ReuseTasks, flr \in FinetuneLrs, qm \in QuantMethods,
       dm \in BOOLEAN :
        StartRun(t, flr, qm, dm)

Next ==
    \/ Run
    \/ FQ_Mkdir
    \/ FQ_CallBuild
    \/ BFM_BuildModel
    \/ BFM_Exists
    \/ BFM_Load
    \/ BFM_PrepareTrainer
    \/ BFM_Train
    \/ BFM_Save
    \/ BFM_ReturnFQ
    \/ BFM_ReturnEV
    \/ FQ_PrepareTrainer
    \/ FQ_Evaluator
    \/ FQ_Quantizer
    \/ FQ_Raise
    \/ FQ_Compress
    \/ FQ_PrintConfig
    \/ FQ_BindModel
    \/ FQ_PrintMetrics
    \/ EV_CallBuild
    \/ EV_PrepareTrainer
    \/ EV_Evaluate
    \/ EV_Print

Spec == Init /\ [][Next]_vars

NextReuse ==
    \/ RunAnyLr
    \/ FQ_Mkdir
    \/ FQ_CallBuild
    \/ BFM_BuildModel
    \/ BFM_Exists
    \/ BFM_Load
    \/ BFM_PrepareTrainer
    \/ BFM_Train
    \/ BFM_Save
    \/ BFM_ReturnFQ
    \/ BFM_ReturnEV
    \/ FQ_PrepareTrainer
    \/ FQ_Evaluator
    \/ FQ_Quantizer
    \/ FQ_Raise
    \/ FQ_Compress
    \/ FQ_PrintConfig
    \/ FQ_BindModel
    \/ FQ_PrintMetrics
    \/ EV_CallBuild
    \/ EV_PrepareTrainer
    \/ EV_Evaluate
    \/ EV_Print

SpecReuse == Init /\ [][NextReuse]_vars

TypeOK ==
    /\ runs \in 0..(MaxRuns + 1)
    /\ task_name \in Tasks
    /\ quant_method \in QuantMethods
    /\ dev_mode \in BOOLEAN
    /\ \A p \in DOMAIN fs : fs[p].kind \in {"pretrained", "finetuned"}

(* ---- helpers of the properties -------------------------------------- *)
Last(q) == q[Len(q)]

IsPrefix(a, b) == Len(a) <= Len(b) /\ SubSeq(b, 1, Len(a)) = a

EventNames(q) == [i \in 1..Len(q) |-> q[i].ev]

(* the statements of function fn executed so far in this run *)
EventsOf(fn) == EventNames(SelectSeq(trace, LAMBDA e : e.fn = fn))

(* the statements of the current (or last) build_finetuning_model call,    *)
(* after its build_model                                                   *)
CallEvents ==
    LET q == SelectSeq(trace, LAMBDA e : e.fn = "build_finetuning_model")
        starts == {i \in 1..Len(q) : q[i].ev = "build_model"}
        s == CHOOSE i \in starts : \A j \in starts : j <= i
    IN  IF starts = {} THEN <<>> ELSE EventNames(SubSeq(q, s + 1, Len(q)))

(* the checkpoint path of every task *)
CheckpointPaths == [t \in Tasks |-> StateDictPath(t)]

Unsupported == quant_method \notin {"lsq", "qat", "ptq"}

InRun == pc # "idle"

(* C1: with a quant_method other than 'lsq', 'qat', 'ptq', fake_quantize   *)
(* ends by raising and the script halts: no quantizer is constructed,      *)
(* compress is never called, nothing is printed, and evaluate() is never   *)
(* executed.                                                               *)
C1_UnsupportedHalts ==
    /\ [](InRun /\ Unsupported =>
            /\ quantizer = NoQuantizer
            /\ compress_calls = <<>>
            /\ stdout = <<>>
            /\ EventsOf("evaluate") = <<>>
            /\ ev_model = 0 /\ ev_trainer = NoTrainer
            /\ pc \notin {"fq_compress", "fq_print_config", "fq_bind",
                          "fq_print_metrics", "ev_call_bfm", "ev_trainer",
                          "ev_evaluate", "ev_print", "done"})
    /\ [][/\ (pc = "fq_branch" /\ Unsupported => pc' = "error")
          /\ (pc = "error" => pc' = "fq_mkdir" /\ runs' = runs + 1)]_vars

C1_Witness ==
    /\ pc = "error"
    /\ Unsupported
    /\ trace # <<>>
    /\ Last(trace) = Event("fake_quantize", "raise ValueError")

(* C2: with an unsupported quant_method the error is raised before any     *)
(* other work of fake_quantize: no fine-tuning training is started, no     *)
(* checkpoint is written, no trainer or evaluator is constructed.          *)
C2_RaisedBeforeAnyWork ==
    pc = "error" =>
        /\ \A i \in 1..Len(trace) :
              trace[i].ev \notin {"trainer.train", "torch.save",
                                  "prepare_traced_trainer",
                                  "TransformersEvaluator"}
        /\ traced_trainer = NoTrainer
        /\ bfm_trainer = NoTrainer
        /\ evaluator = NoEvaluator

(* C3: build_finetuning_model(path) loads and does not train when a file   *)
(* exists at path at the call, otherwise trains and then writes the        *)
(* weights to path; on return the file exists and the returned model       *)
(* carries the weights stored in it.                                       *)
C3_LoadOrTrainAndPersist ==
    pc = "bfm_return" =>
        /\ bfm_path \in DOMAIN fs
        /\ bfm_model \in DOMAIN heap
        /\ heap[bfm_model].weights = fs[bfm_path]
        /\ bfm_existed => CallEvents = <<"load_state_dict">>
        /\ ~bfm_existed => CallEvents = <<"prepare_traced_trainer",
                                          "trainer.train", "torch.save">>

C3_Witness ==
    /\ pc = "bfm_return"
    /\ bfm_existed
    /\ bfm_caller = "fq"
    /\ heap[bfm_model].weights.kind = "finetuned"

(* C4: a checkpoint once written is reused by every later call for that    *)
(* task, in the same run and in later runs: training is not started again  *)
(* and the file is not rewritten, whatever the hyper-parameters of the     *)
(* later run; the fine-tuning of a task completes at most once.            *)
C4_CheckpointReused ==
    /\ [](\A t \in Tasks : trainCount[t] <= 1 /\ saveCount[t] <= 1)
    /\ [](pc \in {"bfm_trainer", "bfm_train", "bfm_save"} =>
             CheckpointPaths[task_name] \notin DOMAIN fs)
    /\ [][\A p \in DOMAIN fs :
             /\ p \in DOMAIN fs'
             /\ fs'[p] = fs[p]
             /\ \A t \in Tasks : CheckpointPaths[t] = p =>
                   /\ trainCount'[t] = trainCount[t]
                   /\ saveCount'[t] = saveCount[t]]_vars

C4_Witness ==
    /\ pc = "done"
    /\ runs = 2
    /\ trainCount[task_name] = 1
    /\ fs[StateDictPath(task_name)].epochs # finetune_max_epochs
    /\ fs[StateDictPath(task_name)].lr # finetune_lr
    /\ EventsOf("build_finetuning_model") =
          <<"build_model", "load_state_dict", "build_model", "load_state_dict">>

(* C5: one checkpoint file per task: distinct task names have distinct     *)
(* paths, and a run for task t tests, reads and writes only the file of t, *)
(* leaving the file of every other task as it was.                         *)
C5_OneCheckpointPerTask ==
    /\ [](\A t1, t2 \in Tasks :
             t1 # t2 => CheckpointPaths[t1] # CheckpointPaths[t2])
    /\ [](DOMAIN fs \subseteq {CheckpointPaths[t] : t \in Tasks})
    /\ [](accessed \subseteq {CheckpointPaths[task_name]})
    /\ [][\A t \in Tasks \ {task_name'} :
             LET p == CheckpointPaths[t]
             IN  /\ (p \in DOMAIN fs') = (p \in DOMAIN fs)
                 /\ p \in DOMAIN fs => fs'[p] = fs[p]]_vars

C5_Witness ==
    /\ pc = "done"
    /\ Cardinality(DOMAIN fs) = 2
    /\ accessed = {StateDictPath(task_name)}
    /\ \E t \in Tasks \ {task_name} :
          /\ StateDictPath(t) \in DOMAIN fs
          /\ fs[StateDictPath(t)].task = t

(* C6: the traced trainer handed to the quantizer is created with is_quant *)
(* True, so its learning rate is quant_lr; the fine-tuning trainer is      *)
(* created with is_quant False, so its learning rate is finetune_lr.       *)
C6_QuantizerTrainerUsesQuantLr ==
    /\ evaluator # NoEvaluator => evaluator.trainer.learning_rate = quant_lr
    /\ traced_trainer # NoTrainer => traced_trainer.learning_rate = quant_lr
    /\ bfm_trainer # NoTrainer => bfm_trainer.learning_rate = finetune_lr

(* C7: in every compress call max_steps and max_epochs are not both None:  *)
(* 'lsq' and 'qat' pass max_steps=None and max_epochs=quant_max_epochs (1  *)
(* in dev mode, 10 otherwise), 'ptq' passes max_steps=1, max_epochs=None.  *)
C7_CompressBounds ==
    \A i \in 1..Len(compress_calls) :
        LET c == compress_calls[i]
        IN  /\ ~(c.max_steps = None /\ c.max_epochs = None)
            /\ (c.max_steps = None) # (c.max_epochs = None)
            /\ quant_method \in {"lsq", "qat"} =>
                  /\ c.max_steps = None
                  /\ c.max_epochs = quant_max_epochs
                  /\ c.max_epochs = (IF dev_mode THEN 1 ELSE 10)
            /\ quant_method = "ptq" => c.max_steps = 1 /\ c.max_epochs = None

C7_Witness ==
    /\ Len(compress_calls) = 1
    /\ quant_method = "qat"
    /\ ~dev_mode
    /\ compress_calls[1].max_epochs = 10

(* C8: in a run with a supported quant_method the steps of fake_quantize   *)
(* happen in the documented order, each once: fine-tuned model, traced     *)
(* trainer, evaluator, the quantizer matching quant_method, compress, the  *)
(* calibration configuration printed, the quantized metrics printed; only  *)
(* then evaluate() prints the metrics of the fine-tuned model.             *)
C8_Expected ==
    <<"mkdir", "build_finetuning_model", "prepare_traced_trainer",
      "TransformersEvaluator",
      CASE quant_method = "lsq" -> "LsqQuantizer"
        [] quant_method = "qat" -> "QATQuantizer"
        [] quant_method = "ptq" -> "PtqQuantizer"
        [] OTHER -> "",
      "compress", "print(calibration_config)", "bind_model",
      "print(evaluate)">>

C8_DocumentedOrder ==
    InRun /\ ~Unsupported =>
        /\ IsPrefix(EventsOf("fake_quantize"), C8_Expected)
        /\ Len(compress_calls) =
              (IF "compress" \in {trace[i].ev : i \in 1..Len(trace)} THEN 1 ELSE 0)
        /\ quantizer # NoQuantizer => quantizer.cls = C8_Expected[5]
        /\ EventsOf("evaluate") # <<>> => EventsOf("fake_quantize") = C8_Expected
        /\ IsPrefix([i \in 1..Len(stdout) |-> stdout[i].what],
                    <<"calibration_config", "quantized metrics",
                      "Evaluate metrics">>)
        /\ pc = "done" =>
              /\ EventsOf("fake_quantize") = C8_Expected
              /\ Last(trace) = Event("evaluate", "print(Evaluate metrics)")
              /\ Len(stdout) = 3
              /\ stdout[2].of.kind # "finetuned"
              /\ stdout[3].of.kind = "finetuned"

C8_Witness ==
    /\ pc = "done"
    /\ quant_method = "qat"
    /\ quantizer.cls = "QATQuantizer"
    /\ Len(stdout) = 3

(* C9: build_model gives the classifier the label cardinality of the task: *)
(* 1 for 'stsb', 3 for 'mnli', 2 for the seven other tasks, whatever the   *)
(* pretrained model name.                                                  *)
C9_Table ==
    [t \in Tasks |->
        CASE t = "stsb" -> 1
          [] t = "mnli" -> 3
          [] t \in {"cola", "mrpc", "qnli", "qqp", "rte", "sst2", "wnli"} -> 2]

C9_NumLabels ==
    /\ Cardinality(Tasks) = 9
    /\ \A i \in DOMAIN heap : heap[i].num_labels = C9_Table[task_name]
    /\ \A n \in {"bert-base-uncased", "bert-large-uncased"} :
          build_model(n, task_name).num_labels = C9_Table[task_name]

C9_Witness ==
    /\ heap # <<>>
    /\ task_name = "stsb"
    /\ heap[1].num_labels = 1

(* C10: the checkpoint file holds the weights of the fine-tuned,           *)
(* unquantized model: it is written only right after trainer.train() has   *)
(* returned and no quantization step writes it; the model evaluate()       *)
(* evaluates is a fresh instance loaded from the checkpoint, not the       *)
(* object the quantizer modified, and its metrics are the baseline's.      *)
C10_CheckpointIsBaseline ==
    /\ [](\A p \in DOMAIN fs : fs[p].kind = "finetuned")
    /\ [][fs' # fs =>
             /\ pc = "bfm_save"
             /\ trace # <<>>
             /\ Last(trace) = Event("build_finetuning_model", "trainer.train")]_vars
    /\ [][(pc \in {"fq_trainer", "fq_evaluator", "fq_branch", "fq_compress",
                   "fq_print_config", "fq_bind", "fq_print_metrics"})
             => fs' = fs]_vars
    /\ [](pc \in {"ev_print", "done"} =>
             /\ ev_model # fq_model
             /\ ev_trainer.model = ev_model
             /\ heap[fq_model].weights.kind \notin {"finetuned", "pretrained"}
             /\ heap[ev_model].weights = fs[StateDictPath(task_name)]
             /\ ev_metrics.of = fs[StateDictPath(task_name)]
             /\ ev_metrics.of.kind = "finetuned")
    /\ [](pc = "done" => Last(stdout) = ev_metrics)

C10_Witness ==
    /\ pc = "done"
    /\ quant_method = "lsq"
    /\ heap[fq_model].weights.kind = "quantized-lsq"
    /\ ev_metrics.of.kind = "finetuned"

====
